---- MODULE Spec2Model ----
(***************************************************************************)
(* Model of the concurrent classification-batch pipeline of                *)
(* google_calendar_exporter/filters/claude_event_filter.py:                *)
(* ClaudeEventFilter.filter_events, _process_batches_concurrently,         *)
(* _async_batch_classify_events, _deduplicate_events, _sort_events and     *)
(* save_filtered_events, with the export run of exporter.py that calls it. *)
(*                                                                         *)
(* Dates are small integers (ISO date strings compare like the integers),  *)
(* confidence scores are tenths (7 is 0.7), an optional value is a         *)
(* sequence of length 0 (None) or 1, and the input dictionary of calendars *)
(* is the sequence of its events in iteration order.                       *)
(***************************************************************************)
EXTENDS Integers, Sequences, FiniteSets, TLC

(***************************************************************************)
(* Bounds of the model                                                     *)
(***************************************************************************)
MaxEvents == 3

MaxBatchSize == 2

MaxConcurrent == 2

MaxEntries == 3

(***************************************************************************)
(* Program constants                                                       *)
(***************************************************************************)
Today == 1

FarFuture == 9999

SaveEvery == 5

DefaultPriority == 3

None == <<>>

Some(x) == <<x>>

UrgentImportant == "Urgent & Important"

ImportantNotUrgent == "Important & Not Urgent"

UrgentNotImportant == "Urgent & Not Important"

NotUrgentNotImportant == "Not Urgent & Not Important"

ReviewReason == "Failed to classify with Claude"

(***************************************************************************)
(* Inputs: events (models/event.py) and classifier verdicts                *)
(***************************************************************************)
\* kind: which field of event.start is set: "date" (all-day), "dateTime"
\* (RFC3339 with a 'T'), "noT" (a dateTime string without 'T'), "none".
Ev(id, kind, day, status) ==
    [id |-> id, kind |-> kind, day |-> day, status |-> status]

\* The events a run is given: two future events of distinct ids that share
\* a start date, a malformed one that shares an id, a past all-day event
\* and a cancelled one.
EventCatalog ==
    { Ev(1, "date", 2, "confirmed"),
      Ev(2, "dateTime", 2, "confirmed"),
      Ev(1, "noT", 3, "confirmed"),
      Ev(3, "date", 0, "confirmed"),
      Ev(2, "date", 2, "cancelled") }

Classification(keep, cat, conf) ==
    [keep_event |-> keep, eisenhower_category |-> cat, confidence_score |-> conf]

\* The verdicts the model returns for an event: keep or drop, both with
\* confidence 0.9; the configured threshold is 0.7 or 1.0.
Verdicts ==
    { Classification(TRUE, UrgentImportant, 9),
      Classification(FALSE, NotUrgentNotImportant, 9) }

\* __init__, line 68: confidence_threshold defaults to 0.7.
DefaultThreshold == 7

Thresholds == {DefaultThreshold, 10}

SeqsUpTo(S, n) == UNION { [1..k -> S] : k \in 0..n }

Range(s) == { s[k] : k \in 1..Len(s) }

(***************************************************************************)
(* FilteredEvent (models/filtered_event.py)                                *)
(***************************************************************************)
\* FilteredEvent.from_event: start_date is start.date, else the part of
\* start.dateTime before 'T' (the whole string when it has no 'T'), else None.
from_event(event) ==
    [id |-> event.id,
     start_date |-> IF event.kind = "none" THEN None ELSE Some(event.day),
     classification |-> None,
     needs_review |-> FALSE,
     review_reason |-> None]

\* As batch_filtered_events, but an item without classification is left out
\* instead of being kept for review.
RECURSIVE batch_filtered_events_dropping(_, _)
batch_filtered_events_dropping(batch_result, threshold) ==
    IF batch_result = <<>> THEN <<>>
    ELSE LET r == Head(batch_result)
             filtered_event == from_event(r.event)
             rest == batch_filtered_events_dropping(Tail(batch_result), threshold)
         IN IF r.classification # None
               /\ r.classification[1].keep_event
               /\ r.classification[1].confidence_score >= threshold
            THEN <<[filtered_event EXCEPT !.classification = r.classification]>> \o rest
            ELSE rest

\* As batch_filtered_events, but an item without classification is kept
\* without the review flag and reason.
RECURSIVE batch_filtered_events_unflagged(_, _)
batch_filtered_events_unflagged(batch_result, threshold) ==
    IF batch_result = <<>> THEN <<>>
    ELSE LET r == Head(batch_result)
             filtered_event == from_event(r.event)
             rest == batch_filtered_events_unflagged(Tail(batch_result), threshold)
         IN IF r.classification = None
            THEN <<filtered_event>> \o rest
            ELSE IF r.classification[1].keep_event
                    /\ r.classification[1].confidence_score >= threshold
                 THEN <<[filtered_event EXCEPT !.classification = r.classification]>> \o rest
                 ELSE rest

\* As batch_filtered_events, but a classified item is kept whatever its
\* verdict and confidence.
RECURSIVE batch_filtered_events_unfiltered(_, _)
batch_filtered_events_unfiltered(batch_result, threshold) ==
    IF batch_result = <<>> THEN <<>>
    ELSE LET r == Head(batch_result)
             filtered_event == from_event(r.event)
             rest == batch_filtered_events_unfiltered(Tail(batch_result), threshold)
         IN IF r.classification = None
            THEN <<[filtered_event EXCEPT !.needs_review = TRUE,
                                          !.review_reason = Some(ReviewReason)]>> \o rest
            ELSE <<[filtered_event EXCEPT !.classification = r.classification]>> \o rest

\* filter_events, lines 570-590: the entries one batch result contributes.
RECURSIVE batch_filtered_events(_, _)
batch_filtered_events(batch_result, threshold) ==
    IF batch_result = <<>> THEN <<>>
    ELSE LET r == Head(batch_result)
             filtered_event == from_event(r.event)
             rest == batch_filtered_events(Tail(batch_result), threshold)
         IN IF r.classification = None
            THEN <<[filtered_event EXCEPT !.needs_review = TRUE,
                                          !.review_reason = Some(ReviewReason)]>> \o rest
            ELSE IF r.classification[1].keep_event
                    /\ r.classification[1].confidence_score >= threshold
                 THEN <<[filtered_event EXCEPT !.classification = r.classification]>> \o rest
                 ELSE rest

(***************************************************************************)
(* _deduplicate_events                                                     *)
(***************************************************************************)
Confidence(fe) ==
    IF fe.classification # None THEN fe.classification[1].confidence_score ELSE 0

\* As ReplacesExisting, but the entry seen first is never replaced.
ReplacesExisting_never(new_confidence, existing_confidence) == FALSE

ReplacesExisting(new_confidence, existing_confidence) ==
    new_confidence > existing_confidence

\* As DedupStep, but every entry is kept.
DedupStep_appending(unique_events, event) == Append(unique_events, event)

\* One iteration of the loop over events; unique_events is the dictionary
\* in insertion order (a replaced value keeps the position of its key).
DedupStep(unique_events, event) ==
    IF \A k \in 1..Len(unique_events) : unique_events[k].id # event.id
    THEN Append(unique_events, event)
    ELSE LET k == CHOOSE j \in 1..Len(unique_events) : unique_events[j].id = event.id
         IN IF ReplacesExisting(Confidence(event), Confidence(unique_events[k]))
            THEN [unique_events EXCEPT ![k] = event]
            ELSE unique_events

RECURSIVE DedupFrom(_, _)
DedupFrom(unique_events, events) ==
    IF events = <<>> THEN unique_events
    ELSE DedupFrom(DedupStep(unique_events, Head(events)), Tail(events))

deduplicate_events(events) == DedupFrom(<<>>, events)

(***************************************************************************)
(* _sort_events                                                            *)
(***************************************************************************)
priority_order(cat) ==
    CASE cat = UrgentImportant -> 0
      [] cat = ImportantNotUrgent -> 1
      [] cat = UrgentNotImportant -> 2
      [] cat = NotUrgentNotImportant -> 3
      [] OTHER -> DefaultPriority

\* As SortKey, but an entry without start date sorts before every date.
SortKey_undated_first(x) ==
    << IF x.start_date # None THEN x.start_date[1] ELSE 0,
       priority_order(IF x.classification # None
                      THEN x.classification[1].eisenhower_category
                      ELSE NotUrgentNotImportant) >>

SortKey(x) ==
    << IF x.start_date # None THEN x.start_date[1] ELSE FarFuture,
       priority_order(IF x.classification # None
                      THEN x.classification[1].eisenhower_category
                      ELSE NotUrgentNotImportant) >>

KeyLess(a, b) == a[1] < b[1] \/ (a[1] = b[1] /\ a[2] < b[2])

\* sorted() is stable: an element goes after every element whose key is
\* not greater than its own.
RECURSIVE InsertSorted(_, _)
InsertSorted(sorted, x) ==
    IF sorted = <<>> THEN <<x>>
    ELSE IF KeyLess(SortKey(x), SortKey(Head(sorted)))
         THEN <<x>> \o sorted
         ELSE <<Head(sorted)>> \o InsertSorted(Tail(sorted), x)

RECURSIVE SortFrom(_, _)
SortFrom(sorted, events) ==
    IF events = <<>> THEN sorted
    ELSE SortFrom(InsertSorted(sorted, Head(events)), Tail(events))

sort_events(events) == SortFrom(<<>>, events)

(***************************************************************************)
(* _async_batch_classify_events                                            *)
(***************************************************************************)
\* _format_event_for_claude runs before the try block (lines 194-197);
\* start.dateTime.split('T')[1] raises IndexError when there is no 'T'.
format_raises(batch_events) ==
    \E k \in 1..Len(batch_events) : batch_events[k].kind = "noT"

IdsOf(batch_events) == { batch_events[k].id : k \in 1..Len(batch_events) }

OptVerdicts == {None} \cup { Some(v) : v \in Verdicts }

\* What the model call can produce for a batch: an exception of the API
\* call, text without parseable JSON, or a classifications list, held as
\* the lookup by event id the code builds from it (line 309).
Responses(batch_events) ==
    { [kind |-> k, lookup |-> [id \in IdsOf(batch_events) |-> None]] :
          k \in {"api_error", "bad_json"} }
    \cup { [kind |-> "ok", lookup |-> f] : f \in [IdsOf(batch_events) -> OptVerdicts] }

CallFailed(response) == response.kind # "ok"

\* What the log of calls keeps of a response.
Outcome(response) == [failed |-> CallFailed(response), lookup |-> response.lookup]

\* Lines 304-361: one (event, classification or None) per batch item; the
\* except clause of line 358 turns every failure into an all-None list.
classify_result(batch_events, response) ==
    [k \in 1..Len(batch_events) |->
        [event |-> batch_events[k],
         classification |-> IF CallFailed(response) THEN None
                            ELSE response.lookup[batch_events[k].id]]]

\* As unclassified, but the items are not reported at all.
unclassified_dropped(batch_events) == <<>>

\* The list of line 361 / 464 / 469: every item with no classification.
unclassified(batch_events) ==
    [k \in 1..Len(batch_events) |-> [event |-> batch_events[k], classification |-> None]]

(***************************************************************************)
(* filter_events: collection and batching                                  *)
(***************************************************************************)
\* Lines 519-531: an all-day event dated before today and a cancelled
\* event are skipped.
is_skipped(event) ==
    \/ event.kind = "date" /\ event.day < Today
    \/ event.status = "cancelled"

RECURSIVE collect(_)
collect(evs) ==
    IF evs = <<>> THEN <<>>
    ELSE IF is_skipped(Head(evs)) THEN collect(Tail(evs))
         ELSE <<Head(evs)>> \o collect(Tail(evs))

Min(a, b) == IF a < b THEN a ELSE b

\* As create_batches, but a last batch shorter than size is not built.
create_batches_full_only(to_process, size) ==
    [b \in 1..(Len(to_process) \div size) |->
        SubSeq(to_process, (b - 1) * size + 1, b * size)]

\* Lines 539-542: range(0, len, batch_size) and the slice [i:i+batch_size].
create_batches(to_process, size) ==
    [b \in 1..((Len(to_process) + size - 1) \div size) |->
        SubSeq(to_process, (b - 1) * size + 1, Min(b * size, Len(to_process)))]

first_half(batch) == SubSeq(batch, 1, Len(batch) \div 2)

second_half(batch) == SubSeq(batch, Len(batch) \div 2 + 1, Len(batch))

(***************************************************************************)
(* State                                                                   *)
(***************************************************************************)
VARIABLES
    events,                  \* the input, calendars flattened
    batch_size,
    max_concurrent_batches,
    confidence_threshold,
    pc,                      \* position of filter_events and of the controller
    total_events,
    events_to_process,
    batches,
    task,                    \* per batch: the process_with_semaphore task
    semaphore,               \* free permits
    calls,                   \* the model calls made so far, numbered, and their responses
    completion_order,        \* batch indices in the order their tasks finished
    batch_results,           \* what gather returned
    ctl_i,                   \* index of the controller's loop over batch_results
    results,
    completed,
    failed,
    batch_idx,               \* index of filter_events' loop over results
    processed_events,
    processed_batch_count,
    all_filtered_events,
    interim_output,          \* the last interim output built (lines 613-624)
    temp_file,
    target_file,
    filtered_output,
    export_status,           \* what the export run has reported so far
    interim_log,             \* the interim saves attempted and how each ended
    entries,                 \* aggregation on its own: the input list
    permuted,                \* a permutation of entries
    agg_pc,
    agg_out,
    agg_out_permuted,
    cl_batch,                \* the client on its own: the batch it is invoked with
    cl_content,              \* the text of the model's response
    cl_classifications,      \* the classifications list that text denotes
    cl_result                \* what the invocation came to

pipeline_vars ==
    << events, batch_size, max_concurrent_batches, confidence_threshold, pc,
       total_events, events_to_process, batches, task, semaphore, calls,
       completion_order, batch_results, ctl_i, results, completed, failed,
       batch_idx, processed_events, processed_batch_count, all_filtered_events,
       interim_output, temp_file, target_file, filtered_output, export_status,
       interim_log >>

agg_vars == << entries, permuted, agg_pc, agg_out, agg_out_permuted >>

client_vars == << cl_batch, cl_content, cl_classifications, cl_result >>

vars == << pipeline_vars, agg_vars, client_vars >>

NoFile == [status |-> "absent", content |-> None]

NoOutput == [filtered_events |-> <<>>, metadata |-> None]

PipelineIdle ==
    /\ events = <<>>
    /\ batch_size = 1
    /\ max_concurrent_batches = 1
    /\ confidence_threshold = 7
    /\ pc = "idle"
    /\ total_events = 0
    /\ events_to_process = <<>>
    /\ batches = <<>>
    /\ task = <<>>
    /\ semaphore = 0
    /\ calls = {}
    /\ completion_order = <<>>
    /\ batch_results = <<>>
    /\ ctl_i = 0
    /\ results = <<>>
    /\ completed = 0
    /\ failed = 0
    /\ batch_idx = 0
    /\ processed_events = <<>>
    /\ processed_batch_count = 0
    /\ all_filtered_events = <<>>
    /\ interim_output = NoOutput
    /\ temp_file = NoFile
    /\ target_file = NoFile
    /\ filtered_output = NoOutput
    /\ export_status = "running"
    /\ interim_log = <<>>

AggIdle ==
    /\ entries = <<>>
    /\ permuted = <<>>
    /\ agg_pc = "idle"
    /\ agg_out = <<>>
    /\ agg_out_permuted = <<>>

ClientIdle ==
    /\ cl_batch = <<>>
    /\ cl_content = <<>>
    /\ cl_classifications = <<>>
    /\ cl_result = None

\* A filter constructed with its configuration, about to run filter_events
\* on some input; the longest inputs are run with the default threshold
\* only.
Init ==
    /\ events \in SeqsUpTo(EventCatalog, MaxEvents)
    /\ batch_size \in 1..MaxBatchSize
    /\ max_concurrent_batches \in 1..MaxConcurrent
    /\ confidence_threshold \in IF Len(events) < MaxEvents THEN Thresholds
                                ELSE {DefaultThreshold}
    /\ pc = "collect"
    /\ total_events = 0
    /\ events_to_process = <<>>
    /\ batches = <<>>
    /\ task = <<>>
    /\ semaphore = 0
    /\ calls = {}
    /\ completion_order = <<>>
    /\ batch_results = <<>>
    /\ ctl_i = 0
    /\ results = <<>>
    /\ completed = 0
    /\ failed = 0
    /\ batch_idx = 0
    /\ processed_events = <<>>
    /\ processed_batch_count = 0
    /\ all_filtered_events = <<>>
    /\ interim_output = NoOutput
    /\ temp_file = NoFile
    /\ target_file = NoFile
    /\ filtered_output = NoOutput
    /\ export_status = "running"
    /\ interim_log = <<>>
    /\ AggIdle
    /\ ClientIdle

(***************************************************************************)
(* filter_events, lines 507-544                                            *)
(***************************************************************************)
CollectEvents ==
    /\ pc = "collect"
    /\ total_events' = Len(events)
    /\ events_to_process' = collect(events)
    /\ pc' = "create_batches"
    /\ UNCHANGED << events, batch_size, max_concurrent_batches, confidence_threshold,
                    batches, task, semaphore, calls, completion_order, batch_results,
                    ctl_i, results, completed, failed, batch_idx, processed_events,
                    processed_batch_count, all_filtered_events, interim_output, temp_file,
                    target_file, filtered_output, export_status, interim_log,
                    agg_vars, client_vars >>

\* Lines 538-555 and 372-404: the batches are built, the controller creates
\* the semaphore and one task per batch and awaits gather.
CreateBatches ==
    /\ pc = "create_batches"
    /\ batches' = create_batches(events_to_process, batch_size)
    /\ task' = [i \in 1..Len(batches') |-> [state |-> "pending", result |-> None]]
    /\ semaphore' = max_concurrent_batches
    /\ results' = <<>>
    /\ completed' = 0
    /\ failed' = 0
    /\ pc' = "gather"
    /\ UNCHANGED << events, batch_size, max_concurrent_batches, confidence_threshold,
                    total_events, events_to_process, calls, completion_order,
                    batch_results, ctl_i, batch_idx, processed_events,
                    processed_batch_count, all_filtered_events, interim_output, temp_file,
                    target_file, filtered_output, export_status, interim_log,
                    agg_vars, client_vars >>

(***************************************************************************)
(* _process_batches_concurrently.process_with_semaphore, lines 381-401      *)
(***************************************************************************)
\* As permit_available, but the semaphore is not consulted.
permit_available_always(permits) == TRUE

\* async with semaphore (line 384): a task enters when a permit is free.
permit_available(permits) == permits > 0

\* As task_after_return, but a task whose call failed takes the tasks that
\* have not finished down with it.
task_after_return_cancelling(tasks, i, result) ==
    [k \in DOMAIN tasks |->
        IF k = i THEN [state |-> "returned", result |-> Some(result)]
        ELSE IF tasks[k].state # "returned"
                /\ \A j \in 1..Len(result) : result[j].classification = None
             THEN [state |-> "returned", result |-> None]
             ELSE tasks[k]]

\* Lines 388-398: the task whose call returned yields its result; no other
\* task is touched.
task_after_return(tasks, i, result) ==
    [tasks EXCEPT ![i] = [state |-> "returned", result |-> Some(result)]]

\* The tasks reach the semaphore in the order gather starts them and its
\* waiters are served first come, first served.  The task takes a permit
\* and runs up to its first suspension: either the formatting raises, the
\* except clause returns None and the permit is given back, or the model
\* call is submitted.
TaskStart(i) ==
    /\ pc = "gather"
    /\ task[i].state = "pending"
    /\ \A j \in 1..(i - 1) : task[j].state # "pending"
    /\ permit_available(semaphore)
    /\ IF format_raises(batches[i])
       THEN /\ task' = [task EXCEPT ![i] = [state |-> "returned", result |-> None]]
            /\ completion_order' = Append(completion_order, i)
            /\ UNCHANGED semaphore
       ELSE /\ task' = [task EXCEPT ![i].state = "in_flight"]
            /\ semaphore' = semaphore - 1
            /\ UNCHANGED completion_order
    /\ UNCHANGED << events, batch_size, max_concurrent_batches, confidence_threshold,
                    pc, total_events, events_to_process, batches, calls, batch_results,
                    ctl_i, results, completed, failed, batch_idx, processed_events,
                    processed_batch_count, all_filtered_events, interim_output, temp_file,
                    target_file, filtered_output, export_status, interim_log,
                    agg_vars, client_vars >>

\* As permits_after_return, but a task whose call failed keeps its permit.
permits_after_return_kept_on_failure(permits, result) ==
    IF \A k \in 1..Len(result) : result[k].classification = None
    THEN permits
    ELSE permits + 1

\* Line 384: `async with semaphore` gives the permit back however the body
\* ends, with the return of line 398 or through the except clause of line
\* 399.
permits_after_return(permits, result) == permits + 1

\* The model call of the task ends with some response; the task returns the
\* list _async_batch_classify_events makes of it and releases its permit.
TaskReturn(i) ==
    /\ pc = "gather"
    /\ task[i].state = "in_flight"
    /\ \E response \in Responses(batches[i]) :
          /\ task' = task_after_return(task, i, classify_result(batches[i], response))
          /\ calls' = calls \cup { [batch |-> i, half |-> 0, items |-> batches[i],
                                    outcome |-> Outcome(response),
                                    seq |-> Cardinality(calls) + 1] }
          /\ semaphore' = permits_after_return(semaphore,
                                                classify_result(batches[i], response))
    /\ completion_order' = Append(completion_order, i)
    /\ UNCHANGED << events, batch_size, max_concurrent_batches, confidence_threshold,
                    pc, total_events, events_to_process, batches, batch_results,
                    ctl_i, results, completed, failed, batch_idx, processed_events,
                    processed_batch_count, all_filtered_events, interim_output, temp_file,
                    target_file, filtered_output, export_status, interim_log,
                    agg_vars, client_vars >>

\* As gather_order, but the results come in the order the tasks finished.
gather_order_as_completed(n, finished) == finished

\* asyncio.gather returns the tasks' results in the order of the tasks.
gather_order(n, finished) == [k \in 1..n |-> k]

\* Line 411: gather returns once every task has returned.
Gather ==
    /\ pc = "gather"
    /\ \A i \in 1..Len(batches) : task[i].state = "returned"
    /\ batch_results' = [k \in 1..Len(batches) |->
                            task[gather_order(Len(batches), completion_order)[k]].result]
    /\ ctl_i' = 1
    /\ pc' = "loop"
    /\ UNCHANGED << events, batch_size, max_concurrent_batches, confidence_threshold,
                    total_events, events_to_process, batches, task, semaphore, calls,
                    completion_order, results, completed, failed, batch_idx,
                    processed_events, processed_batch_count, all_filtered_events,
                    interim_output, temp_file, target_file, filtered_output,
                    export_status, interim_log, agg_vars, client_vars >>

(***************************************************************************)
(* _process_batches_concurrently, lines 412-478                             *)
(***************************************************************************)
\* One iteration of the loop over batch_results, up to its first model
\* call (the sleeps suspend nothing else: every task has returned).
LoopStep ==
    /\ pc = "loop"
    /\ ctl_i <= Len(batch_results)
    /\ LET result == batch_results[ctl_i]
           batch == batches[ctl_i]
       IN IF result # None
          THEN /\ completed' = completed + 1
               /\ results' = Append(results, result[1])
               /\ ctl_i' = ctl_i + 1
               /\ UNCHANGED << failed, pc >>
          ELSE /\ failed' = failed + 1
               /\ UNCHANGED completed
               /\ IF Len(batch) > 1
                  THEN IF format_raises(first_half(batch))
                       THEN /\ results' = Append(results, unclassified(batch))
                            /\ ctl_i' = ctl_i + 1
                            /\ UNCHANGED pc
                       ELSE /\ pc' = "first_call"
                            /\ UNCHANGED << results, ctl_i >>
                  ELSE /\ results' = Append(results, unclassified(batch))
                       /\ ctl_i' = ctl_i + 1
                       /\ UNCHANGED pc
    /\ UNCHANGED << events, batch_size, max_concurrent_batches, confidence_threshold,
                    total_events, events_to_process, batches, task, semaphore, calls,
                    completion_order, batch_results, batch_idx, processed_events,
                    processed_batch_count, all_filtered_events, interim_output, temp_file,
                    target_file, filtered_output, export_status, interim_log,
                    agg_vars, client_vars >>

\* As retry_next, but a half whose call classified nothing is sent again.
retry_next_until_classified(half, half_result) ==
    IF \A k \in 1..Len(half_result) : half_result[k].classification = None
    THEN IF half = 1 THEN "first_call" ELSE "second_call"
    ELSE IF half = 1 THEN "second_call" ELSE "loop"

\* Lines 434-458 are straight-line code: whatever the first half's call
\* returned, the second half comes next, and after the second half the loop
\* over batch_results goes on.
retry_next(half, half_result) == IF half = 1 THEN "second_call" ELSE "loop"

\* Lines 434-464: a retry call returns.  After the first half the second
\* half is formatted and submitted; a raise there lands in the except
\* clause, which marks the whole batch for review.
RetryReturn ==
    /\ pc \in {"first_call", "second_call"}
    /\ LET batch == batches[ctl_i]
           half == IF pc = "first_call" THEN 1 ELSE 2
           items == IF half = 1 THEN first_half(batch) ELSE second_half(batch)
       IN \E response \in Responses(items) :
            LET half_result == classify_result(items, response)
                appended == IF half_result # <<>> THEN Append(results, half_result)
                            ELSE results
                next == retry_next(half, half_result)
            IN /\ calls' = calls \cup { [batch |-> ctl_i, half |-> half, items |-> items,
                                         outcome |-> Outcome(response),
                                         seq |-> Cardinality(calls) + 1] }
               /\ completed' = IF half_result # <<>> THEN completed + 1 ELSE completed
               /\ IF next = "second_call" /\ format_raises(second_half(batch))
                  THEN /\ results' = Append(appended, unclassified(batch))
                       /\ ctl_i' = ctl_i + 1
                       /\ pc' = "loop"
                  ELSE /\ results' = IF next = pc THEN results ELSE appended
                       /\ ctl_i' = IF next = "loop" THEN ctl_i + 1 ELSE ctl_i
                       /\ pc' = next
    /\ UNCHANGED << events, batch_size, max_concurrent_batches, confidence_threshold,
                    total_events, events_to_process, batches, task, semaphore,
                    completion_order, batch_results, failed, batch_idx,
                    processed_events, processed_batch_count, all_filtered_events,
                    interim_output, temp_file, target_file, filtered_output,
                    export_status, interim_log, agg_vars, client_vars >>

\* Line 478 and line 555: the controller returns results to filter_events.
ControllerReturn ==
    /\ pc = "loop"
    /\ ctl_i > Len(batch_results)
    /\ batch_idx' = 1
    /\ processed_events' = <<>>
    /\ processed_batch_count' = 0
    /\ pc' = "process"
    /\ UNCHANGED << events, batch_size, max_concurrent_batches, confidence_threshold,
                    total_events, events_to_process, batches, task, semaphore, calls,
                    completion_order, batch_results, ctl_i, results, completed, failed,
                    all_filtered_events, interim_output, temp_file, target_file,
                    filtered_output, export_status, interim_log,
                    agg_vars, client_vars >>

(***************************************************************************)
(* filter_events, lines 558-667                                            *)
(***************************************************************************)
DefaultMetadataThreshold == 7

\* FilteredEventsOutput.__post_init__ and the keys filter_events sets.
interim_metadata(retained) ==
    [total_events_processed |-> total_events,
     events_retained |-> retained,
     confidence_threshold |-> DefaultMetadataThreshold,
     batches_processed |-> processed_batch_count + 1,
     total_batches |-> Len(batches)]

final_metadata(retained) ==
    [total_events_processed |-> total_events,
     events_retained |-> retained,
     confidence_threshold |-> DefaultMetadataThreshold,
     batch_size |-> batch_size,
     max_concurrent_batches |-> max_concurrent_batches,
     total_batches |-> Len(batches),
     successful_batches |-> processed_batch_count]

\* json.dump meets FilteredEvent objects, which the encoder cannot
\* serialise, as soon as the list is not empty.
serialisable(output) == output.filtered_events = <<>>

\* What becomes of a write with open() and json.dump (lines 628-629 and
\* 763-764): open() may fail before the file is touched, json.dump may fail
\* after open() has truncated the file and part of the text is written, or
\* the whole text is written.  A list that cannot be serialised always
\* fails in json.dump.
WriteOutcomes(output) ==
    IF serialisable(output) THEN {"ok", "open_error", "write_error"}
    ELSE {"open_error", "write_error"}

\* As interim_failure_pc, but the failure of the interim save is not caught
\* and ends filter_events.
interim_failure_pc_raising(current) == "raised"

\* Lines 636-637: the except clause logs the failure and the loop over the
\* results goes on.
interim_failure_pc(current) == current

\* One iteration of the loop over the controller's results, with the
\* interim save of lines 597-637: the output goes to <target>.temp, which
\* then replaces the target; any failure of it is caught.
ProcessBatch ==
    /\ pc = "process"
    /\ batch_idx <= Len(results)
    /\ LET batch_result == results[batch_idx]
       IN IF batch_result = <<>>
          THEN UNCHANGED << processed_events, processed_batch_count,
                            all_filtered_events, interim_output, temp_file,
                            target_file, interim_log, pc >>
          ELSE LET extended == processed_events
                               \o batch_filtered_events(batch_result, confidence_threshold)
                   sorted_events == sort_events(deduplicate_events(extended))
                   output == [filtered_events |-> sorted_events,
                              metadata |-> Some(interim_metadata(Len(sorted_events)))]
               IN /\ processed_events' = extended
                  /\ processed_batch_count' = processed_batch_count + 1
                  /\ all_filtered_events' = extended
                  /\ IF (processed_batch_count + 1) % SaveEvery = 0
                     THEN /\ interim_output' = output
                          /\ \E outcome \in WriteOutcomes(output) :
                               /\ temp_file' =
                                     CASE outcome = "ok" -> NoFile
                                       [] outcome = "write_error" ->
                                            [status |-> "partial", content |-> None]
                                       [] OTHER -> temp_file
                               /\ target_file' =
                                     IF outcome = "ok"
                                     THEN [status |-> "complete", content |-> Some(output)]
                                     ELSE target_file
                               /\ interim_log' =
                                     Append(interim_log,
                                            [batches_processed |-> processed_batch_count + 1,
                                             saved |-> outcome = "ok"])
                               /\ pc' = IF outcome = "ok" THEN pc
                                        ELSE interim_failure_pc(pc)
                     ELSE UNCHANGED << interim_output, temp_file, target_file,
                                       interim_log, pc >>
    /\ batch_idx' = batch_idx + 1
    /\ UNCHANGED << events, batch_size, max_concurrent_batches, confidence_threshold,
                    total_events, events_to_process, batches, task, semaphore,
                    calls, completion_order, batch_results, ctl_i, results, completed,
                    failed, filtered_output, export_status, agg_vars, client_vars >>

\* Lines 644-667: deduplicate, sort, fill the output; the percentage of
\* line 662 divides by total_events.
Finalize ==
    /\ pc = "process"
    /\ batch_idx > Len(results)
    /\ LET sorted_events == sort_events(deduplicate_events(all_filtered_events))
       IN filtered_output' = [filtered_events |-> sorted_events,
                              metadata |-> Some(final_metadata(Len(sorted_events)))]
    /\ pc' = IF total_events = 0 THEN "raised" ELSE "done"
    /\ UNCHANGED << events, batch_size, max_concurrent_batches, confidence_threshold,
                    total_events, events_to_process, batches, task, semaphore, calls,
                    completion_order, batch_results, ctl_i, results, completed, failed,
                    batch_idx, processed_events, processed_batch_count,
                    all_filtered_events, interim_output, temp_file, target_file,
                    export_status, interim_log, agg_vars, client_vars >>

Next ==
    \/ CollectEvents
    \/ CreateBatches
    \/ \E i \in 1..Len(batches) : TaskStart(i)
    \/ \E i \in 1..Len(batches) : TaskReturn(i)
    \/ Gather
    \/ LoopStep
    \/ RetryReturn
    \/ ControllerReturn
    \/ ProcessBatch
    \/ Finalize

Spec == Init /\ [][Next]_vars

(***************************************************************************)
(* save_filtered_events (lines 740-768) and its caller,                    *)
(* GoogleCalendarExporter.filter_events / export_data (exporter.py)        *)
(***************************************************************************)
\* Lines 761-768: the output is written to the target path itself; an
\* exception is logged and raised again.  The exporter calls it with the
\* configured FILTERED_EVENTS_OUTPUT_FILE once filter_events has returned.
SaveFilteredEvents ==
    /\ pc = "done"
    /\ \E outcome \in WriteOutcomes(filtered_output) :
          /\ target_file' = CASE outcome = "ok" ->
                                    [status |-> "complete",
                                     content |-> Some(filtered_output)]
                               [] outcome = "write_error" ->
                                    [status |-> "partial", content |-> None]
                               [] OTHER -> target_file
          /\ pc' = IF outcome = "ok" THEN "saved" ELSE "save_raised"
    /\ UNCHANGED << events, batch_size, max_concurrent_batches, confidence_threshold,
                    total_events, events_to_process, batches, task, semaphore, calls,
                    completion_order, batch_results, ctl_i, results, completed, failed,
                    batch_idx, processed_events, processed_batch_count,
                    all_filtered_events, interim_output, temp_file, filtered_output,
                    export_status, interim_log, agg_vars, client_vars >>

\* exporter.py lines 157-170 and 215-224: GoogleCalendarExporter.filter_events
\* catches whatever the filter or the save raised and returns None;
\* export_data then logs that the export completed successfully and
\* returns the formatted events, tasks and planning data.
export_result(filter_failed) == "success"

ExportReturn ==
    /\ pc \in {"saved", "save_raised", "raised"}
    /\ export_status' = export_result(pc # "saved")
    /\ pc' = "exported"
    /\ UNCHANGED << events, batch_size, max_concurrent_batches, confidence_threshold,
                    total_events, events_to_process, batches, task, semaphore, calls,
                    completion_order, batch_results, ctl_i, results, completed, failed,
                    batch_idx, processed_events, processed_batch_count,
                    all_filtered_events, interim_output, temp_file, target_file,
                    filtered_output, interim_log, agg_vars, client_vars >>

\* An export run: filter_events, then the save and the return of the
\* exporter.
ExportNext ==
    \/ Next
    \/ SaveFilteredEvents
    \/ ExportReturn

\* A filter that takes one batch at a time, given inputs one event shorter
\* than those of Init.
ExportInit ==
    /\ events \in SeqsUpTo(EventCatalog, MaxEvents - 1)
    /\ batch_size \in 1..MaxBatchSize
    /\ max_concurrent_batches = 1
    /\ confidence_threshold \in Thresholds
    /\ pc = "collect"
    /\ total_events = 0
    /\ events_to_process = <<>>
    /\ batches = <<>>
    /\ task = <<>>
    /\ semaphore = 0
    /\ calls = {}
    /\ completion_order = <<>>
    /\ batch_results = <<>>
    /\ ctl_i = 0
    /\ results = <<>>
    /\ completed = 0
    /\ failed = 0
    /\ batch_idx = 0
    /\ processed_events = <<>>
    /\ processed_batch_count = 0
    /\ all_filtered_events = <<>>
    /\ interim_output = NoOutput
    /\ temp_file = NoFile
    /\ target_file = NoFile
    /\ filtered_output = NoOutput
    /\ export_status = "running"
    /\ interim_log = <<>>
    /\ AggIdle
    /\ ClientIdle

SpecExport == ExportInit /\ [][ExportNext]_vars

(***************************************************************************)
(* Runs long enough for the interim save of every 5 processed batches:     *)
(* six events in batches of one or two, with a repeated id and with        *)
(* malformed events that send their batches down the retry path.           *)
(***************************************************************************)
SnapInputs ==
    { << Ev(1, "date", 2, "confirmed"), Ev(1, "noT", 3, "confirmed"),
         Ev(2, "dateTime", 2, "confirmed"), Ev(1, "noT", 3, "confirmed"),
         Ev(1, "date", 2, "confirmed"), Ev(2, "dateTime", 2, "confirmed") >> }

SnapInit ==
    /\ events \in SnapInputs
    /\ batch_size \in {1, 2}
    /\ max_concurrent_batches = 2
    /\ confidence_threshold \in Thresholds
    /\ pc = "collect"
    /\ total_events = 0
    /\ events_to_process = <<>>
    /\ batches = <<>>
    /\ task = <<>>
    /\ semaphore = 0
    /\ calls = {}
    /\ completion_order = <<>>
    /\ batch_results = <<>>
    /\ ctl_i = 0
    /\ results = <<>>
    /\ completed = 0
    /\ failed = 0
    /\ batch_idx = 0
    /\ processed_events = <<>>
    /\ processed_batch_count = 0
    /\ all_filtered_events = <<>>
    /\ interim_output = NoOutput
    /\ temp_file = NoFile
    /\ target_file = NoFile
    /\ filtered_output = NoOutput
    /\ export_status = "running"
    /\ interim_log = <<>>
    /\ AggIdle
    /\ ClientIdle

SpecSnap == SnapInit /\ [][Next]_vars

(***************************************************************************)
(* Runs of ten events, long enough for two interim saves: five well-formed *)
(* events, whose verdicts decide whether the first snapshot is empty, and  *)
(* five malformed ones, which are kept for review without any call.        *)
(***************************************************************************)
LongInputs ==
    { << Ev(1, "date", 2, "confirmed"), Ev(2, "dateTime", 2, "confirmed"),
         Ev(1, "date", 2, "confirmed"), Ev(2, "dateTime", 2, "confirmed"),
         Ev(1, "date", 2, "confirmed"), Ev(1, "noT", 3, "confirmed"),
         Ev(1, "noT", 3, "confirmed"), Ev(1, "noT", 3, "confirmed"),
         Ev(1, "noT", 3, "confirmed"), Ev(1, "noT", 3, "confirmed") >> }

LongInit ==
    /\ events \in LongInputs
    /\ batch_size \in {1, 2}
    /\ max_concurrent_batches = 1
    /\ confidence_threshold = 7
    /\ pc = "collect"
    /\ total_events = 0
    /\ events_to_process = <<>>
    /\ batches = <<>>
    /\ task = <<>>
    /\ semaphore = 0
    /\ calls = {}
    /\ completion_order = <<>>
    /\ batch_results = <<>>
    /\ ctl_i = 0
    /\ results = <<>>
    /\ completed = 0
    /\ failed = 0
    /\ batch_idx = 0
    /\ processed_events = <<>>
    /\ processed_batch_count = 0
    /\ all_filtered_events = <<>>
    /\ interim_output = NoOutput
    /\ temp_file = NoFile
    /\ target_file = NoFile
    /\ filtered_output = NoOutput
    /\ export_status = "running"
    /\ interim_log = <<>>
    /\ AggIdle
    /\ ClientIdle

SpecLong == LongInit /\ [][Next]_vars

(***************************************************************************)
(* Aggregation on its own: _deduplicate_events and _sort_events applied to *)
(* a list of entries and to a permutation of it.                           *)
(***************************************************************************)
Entry(id, start_date, classification) ==
    [id |-> id,
     start_date |-> start_date,
     classification |-> classification,
     needs_review |-> classification = None,
     review_reason |-> IF classification = None THEN Some(ReviewReason) ELSE None]

\* Entries of three items: two that share a start date and one without a
\* date, each unclassified or classified with confidence 0, 0.4 or 0.9.
AggStartDate(id) == IF id = 3 THEN None ELSE Some(2)

AggEntries ==
    { Entry(id, AggStartDate(id), c) :
        id \in {1, 2, 3},
        c \in {None,
               Some(Classification(TRUE, NotUrgentNotImportant, 0)),
               Some(Classification(TRUE, ImportantNotUrgent, 4)),
               Some(Classification(TRUE, UrgentImportant, 9))} }

Injections(n) ==
    { f \in [1..n -> 1..n] : \A i, j \in 1..n : i # j => f[i] # f[j] }

PermutationsOf(s) ==
    { [i \in 1..Len(s) |-> s[f[i]]] : f \in Injections(Len(s)) }

AggInit ==
    /\ entries \in SeqsUpTo(AggEntries, MaxEntries)
    /\ permuted \in PermutationsOf(entries)
    /\ agg_pc = "start"
    /\ agg_out = <<>>
    /\ agg_out_permuted = <<>>
    /\ PipelineIdle
    /\ ClientIdle

AggDeduplicate ==
    /\ agg_pc = "start"
    /\ agg_out' = deduplicate_events(entries)
    /\ agg_out_permuted' = deduplicate_events(permuted)
    /\ agg_pc' = "deduplicated"
    /\ UNCHANGED << entries, permuted, pipeline_vars, client_vars >>

AggSort ==
    /\ agg_pc = "deduplicated"
    /\ agg_out' = sort_events(agg_out)
    /\ agg_out_permuted' = sort_events(agg_out_permuted)
    /\ agg_pc' = "sorted"
    /\ UNCHANGED << entries, permuted, pipeline_vars, client_vars >>

AggNext == AggDeduplicate \/ AggSort

SpecAgg == AggInit /\ [][AggNext]_vars

(***************************************************************************)
(* _sort_events on its own, on lists of entries with two dates or none and *)
(* with each of the four categories, an unknown category or none.          *)
(***************************************************************************)
UnknownCategory == "Someday"

SortEntries ==
    { Entry(1, d, c) :
        d \in {None, Some(2), Some(3)},
        c \in {None} \cup { Some(Classification(TRUE, cat, 9)) :
                              cat \in {UrgentImportant, ImportantNotUrgent,
                                       UrgentNotImportant, NotUrgentNotImportant,
                                       UnknownCategory} } }

SortInit ==
    /\ entries \in SeqsUpTo(SortEntries, MaxEntries)
    /\ permuted = <<>>
    /\ agg_pc = "unsorted"
    /\ agg_out = <<>>
    /\ agg_out_permuted = <<>>
    /\ PipelineIdle
    /\ ClientIdle

SortOnly ==
    /\ agg_pc = "unsorted"
    /\ agg_out' = sort_events(entries)
    /\ agg_pc' = "sorted_only"
    /\ UNCHANGED << entries, permuted, agg_out_permuted, pipeline_vars, client_vars >>

SpecSort == SortInit /\ [][SortOnly]_vars

(***************************************************************************)
(* filter_events on inputs with past events of both kinds: all-day         *)
(* (start.date) and timed (start.dateTime).                                *)
(***************************************************************************)
PastCatalog ==
    { Ev(1, "date", 0, "confirmed"),
      Ev(2, "dateTime", 0, "confirmed"),
      Ev(3, "dateTime", 2, "confirmed"),
      Ev(3, "noT", 3, "confirmed") }

PastInit ==
    /\ events \in SeqsUpTo(PastCatalog, MaxEvents - 1)
    /\ batch_size \in 1..MaxBatchSize
    /\ max_concurrent_batches = 1
    /\ confidence_threshold = DefaultThreshold
    /\ pc = "collect"
    /\ total_events = 0
    /\ events_to_process = <<>>
    /\ batches = <<>>
    /\ task = <<>>
    /\ semaphore = 0
    /\ calls = {}
    /\ completion_order = <<>>
    /\ batch_results = <<>>
    /\ ctl_i = 0
    /\ results = <<>>
    /\ completed = 0
    /\ failed = 0
    /\ batch_idx = 0
    /\ processed_events = <<>>
    /\ processed_batch_count = 0
    /\ all_filtered_events = <<>>
    /\ interim_output = NoOutput
    /\ temp_file = NoFile
    /\ target_file = NoFile
    /\ filtered_output = NoOutput
    /\ export_status = "running"
    /\ interim_log = <<>>
    /\ AggIdle
    /\ ClientIdle

SpecPast == PastInit /\ [][Next]_vars

(***************************************************************************)
(* filter_events under a scheduler that keeps running: the event loop runs *)
(* whatever is ready, and every model call returns or raises in the end.   *)
(***************************************************************************)
FairInit ==
    /\ events \in SeqsUpTo(EventCatalog, MaxEvents - 1)
    /\ batch_size \in 1..MaxBatchSize
    /\ max_concurrent_batches \in 1..MaxConcurrent
    /\ confidence_threshold = DefaultThreshold
    /\ pc = "collect"
    /\ total_events = 0
    /\ events_to_process = <<>>
    /\ batches = <<>>
    /\ task = <<>>
    /\ semaphore = 0
    /\ calls = {}
    /\ completion_order = <<>>
    /\ batch_results = <<>>
    /\ ctl_i = 0
    /\ results = <<>>
    /\ completed = 0
    /\ failed = 0
    /\ batch_idx = 0
    /\ processed_events = <<>>
    /\ processed_batch_count = 0
    /\ all_filtered_events = <<>>
    /\ interim_output = NoOutput
    /\ temp_file = NoFile
    /\ target_file = NoFile
    /\ filtered_output = NoOutput
    /\ export_status = "running"
    /\ interim_log = <<>>
    /\ AggIdle
    /\ ClientIdle

SpecFair == FairInit /\ [][Next]_vars /\ WF_vars(Next)

(***************************************************************************)
(* _async_batch_classify_events on its own: one invocation with a batch    *)
(* and the text the model answers with.  The text is a sequence of tokens: *)
(* a code fence, the tag "json", braces, and "v" for any run of text that  *)
(* is valid inside a JSON object.                                          *)
(***************************************************************************)
MaxContent == 4

MaxVerdicts == 2

\* Three backticks.
Fence == "fence"

JsonTag == "json"

ContentTokens == {Fence, JsonTag, "{", "}", "v"}

\* str.find and str.rfind, with 0 for "not found".
find(s, tok) ==
    IF \E k \in 1..Len(s) : s[k] = tok
    THEN CHOOSE k \in 1..Len(s) : s[k] = tok /\ \A j \in 1..(k - 1) : s[j] # tok
    ELSE 0

rfind(s, tok) ==
    IF \E k \in 1..Len(s) : s[k] = tok
    THEN CHOOSE k \in 1..Len(s) : s[k] = tok /\ \A j \in (k + 1)..Len(s) : s[j] # tok
    ELSE 0

\* The first place where a fence tagged json starts, 0 if there is none.
find_json_fence(s) ==
    IF \E k \in 1..(Len(s) - 1) : s[k] = Fence /\ s[k + 1] = JsonTag
    THEN CHOOSE k \in 1..(Len(s) - 1) :
            /\ s[k] = Fence /\ s[k + 1] = JsonTag
            /\ \A j \in 1..(k - 1) : ~(s[j] = Fence /\ s[j + 1] = JsonTag)
    ELSE 0

\* s.split(fence)[0]: the text before the first fence.
before_fence(s) == IF find(s, Fence) = 0 THEN s ELSE SubSeq(s, 1, find(s, Fence) - 1)

\* Line 260: content.split(fence + "json")[1].split(fence)[0].
json_block(content) ==
    before_fence(SubSeq(content, find_json_fence(content) + 2, Len(content)))

\* Line 265: content.split(fence)[1].split(fence)[0].
any_block(content) ==
    before_fence(SubSeq(content, find(content, Fence) + 1, Len(content)))

\* Lines 272-279: from the first "{" to the last "}", or the whole text
\* when the last "}" does not come after the first "{".
brace_span(content) ==
    IF rfind(content, "}") > find(content, "{")
    THEN SubSeq(content, find(content, "{"), rfind(content, "}"))
    ELSE content

\* Lines 255-285: the stage is chosen by the markers the text holds; no
\* marker and no "{" raises ValueError.
extract_json_text(content) ==
    IF find_json_fence(content) # 0
    THEN [raised |-> FALSE, json_text |-> json_block(content)]
    ELSE IF find(content, Fence) # 0
    THEN [raised |-> FALSE, json_text |-> any_block(content)]
    ELSE IF find(content, "{") # 0
    THEN [raised |-> FALSE, json_text |-> brace_span(content)]
    ELSE [raised |-> TRUE, json_text |-> <<>>]

\* Line 289: the text must start with "{" and end with "}".
looks_like_object(json_text) ==
    /\ json_text # <<>>
    /\ Head(json_text) = "{"
    /\ json_text[Len(json_text)] = "}"

\* Nesting depth after each token, -1 once a token that cannot stand in a
\* JSON text (a fence, the bare tag, a "}" too many, text after the object
\* has closed) has been met.
RECURSIVE depth_after(_, _)
depth_after(json_text, depth) ==
    IF json_text = <<>> THEN depth
    ELSE LET tok == Head(json_text)
             rest == Tail(json_text)
         IN IF tok = "{" THEN depth_after(rest, depth + 1)
            ELSE IF tok = "}"
                 THEN IF depth = 0 \/ (depth = 1 /\ rest # <<>>) THEN -1
                      ELSE depth_after(rest, depth - 1)
            ELSE IF tok = "v" /\ depth > 0 THEN depth_after(rest, depth)
            ELSE -1

\* Line 295: json.loads accepts one complete object and nothing else.
json_loads_ok(json_text) == json_text # <<>> /\ depth_after(json_text, 0) = 0

parses(json_text) == looks_like_object(json_text) /\ json_loads_ok(json_text)

\* One object of the classifications list.
VerdictObject(id, c) == [event_id |-> id, verdict |-> c]

\* Line 309: the dictionary by event_id; a later object replaces an earlier
\* one with the same id.
classification_lookup(classifications) ==
    [id \in { classifications[k].event_id : k \in 1..Len(classifications) } |->
        LET last == CHOOSE k \in 1..Len(classifications) :
                       /\ classifications[k].event_id = id
                       /\ \A j \in (k + 1)..Len(classifications) :
                             classifications[j].event_id # id
        IN classifications[last].verdict]

\* As matched_response, but an item without a verdict fails the whole call.
matched_response_all_or_nothing(batch_events, classifications) ==
    IF \A id \in IdsOf(batch_events) : id \in DOMAIN classification_lookup(classifications)
    THEN [kind |-> "ok",
          lookup |-> [id \in IdsOf(batch_events) |->
                         Some(classification_lookup(classifications)[id])]]
    ELSE [kind |-> "bad_json", lookup |-> [id \in IdsOf(batch_events) |-> None]]

\* Lines 322-329: classification_lookup.get(event_id) for each batch item;
\* objects with other ids are never looked at.
matched_response(batch_events, classifications) ==
    [kind |-> "ok",
     lookup |-> [id \in IdsOf(batch_events) |->
                    IF id \in DOMAIN classification_lookup(classifications)
                    THEN Some(classification_lookup(classifications)[id])
                    ELSE None]]

\* Lines 183-361, one invocation: an empty batch returns at once, the
\* formatting of lines 194-197 may raise, and everything after it is inside
\* the try block whose except clause returns the batch unclassified.
async_batch_classify_events(batch_events, content, classifications) ==
    LET extracted == extract_json_text(content)
    IN IF batch_events = <<>>
       THEN [raised |-> FALSE, failed |-> FALSE, json_text |-> <<>>, result |-> <<>>]
       ELSE IF format_raises(batch_events)
       THEN [raised |-> TRUE, failed |-> FALSE, json_text |-> <<>>, result |-> <<>>]
       ELSE IF extracted.raised \/ ~parses(extracted.json_text)
       THEN [raised |-> FALSE, failed |-> TRUE, json_text |-> extracted.json_text,
             result |-> unclassified(batch_events)]
       ELSE [raised |-> FALSE, failed |-> FALSE, json_text |-> extracted.json_text,
             result |-> classify_result(batch_events,
                                        matched_response(batch_events, classifications))]

\* Batches of two well-formed events and a malformed one.
ClientEvents ==
    { Ev(1, "date", 2, "confirmed"),
      Ev(2, "dateTime", 2, "confirmed"),
      Ev(1, "noT", 3, "confirmed") }

\* Verdict objects for the two ids of the batch items and for an id no
\* event has.
VerdictObjects == { VerdictObject(id, c) : id \in {1, 2, 4}, c \in Verdicts }

PlainJson == << "{", "v", "}" >>

\* Either the text varies and the batch and the list it denotes are fixed,
\* or the text is a bare JSON object and the batch and the list vary.
ClientInit ==
    /\ \/ /\ cl_content \in SeqsUpTo(ContentTokens, MaxContent)
          /\ cl_batch = << Ev(1, "date", 2, "confirmed"), Ev(2, "dateTime", 2, "confirmed") >>
          /\ cl_classifications =
                << VerdictObject(1, Classification(TRUE, UrgentImportant, 9)) >>
       \/ /\ cl_content = PlainJson
          /\ cl_batch \in SeqsUpTo(ClientEvents, MaxBatchSize)
          /\ cl_classifications \in SeqsUpTo(VerdictObjects, MaxVerdicts)
    /\ cl_result = None
    /\ PipelineIdle
    /\ AggIdle

ClientCall ==
    /\ cl_result = None
    /\ \/ cl_content # <<>>
       \/ cl_batch # <<>>
    /\ cl_result' = Some(async_batch_classify_events(cl_batch, cl_content,
                                                     cl_classifications))
    /\ UNCHANGED << cl_batch, cl_content, cl_classifications, pipeline_vars, agg_vars >>

SpecClient == ClientInit /\ [][ClientCall]_vars

(***************************************************************************)
(* Properties                                                              *)
(***************************************************************************)
AllIds == { e.id : e \in EventCatalog }

CountId(list, id) == Cardinality({ j \in 1..Len(list) : list[j].id = id })

Passes(c, threshold) == c.keep_event /\ c.confidence_score >= threshold

ControllerReturned ==
    pc \in {"process", "done", "raised", "saved", "save_raised", "exported"}

InFlight ==
    Cardinality({ i \in 1..Len(task) : task[i].state = "in_flight" })
    + (IF pc \in {"first_call", "second_call"} THEN 1 ELSE 0)

\* The response a logged call stands for, as far as the result depends on it.
ResponseOf(b, h) ==
    LET c == CHOOSE x \in calls : x.batch = b /\ x.half = h
    IN [kind |-> IF c.outcome.failed THEN "api_error" ELSE "ok",
        lookup |-> c.outcome.lookup]

\* C1 as stated: when filter_events returns, every input item has exactly
\* one entry in filtered_events.
C1_EveryInputItemOnce ==
    pc = "done" =>
        \A k \in 1..Len(events) :
            CountId(filtered_output.filtered_events, events[k].id) = 1

\* The controller reported the id with no classification or with a verdict
\* that passes the filter.
C1_Retained(id) ==
    \E b \in 1..Len(results) : \E k \in 1..Len(results[b]) :
        /\ results[b][k].event.id = id
        /\ \/ results[b][k].classification = None
           \/ Passes(results[b][k].classification[1], confidence_threshold)

\* C1 amended: when filter_events returns, filtered_events holds exactly one
\* entry for every item id reported with no classification or with a passing
\* verdict, and no entry for any other id (skipped items, discarded items).
C1_RetainedItemsOnce ==
    pc = "done" =>
        \A id \in AllIds :
            CountId(filtered_output.filtered_events, id)
                = IF C1_Retained(id) THEN 1 ELSE 0

C1_Witness ==
    /\ pc = "done"
    /\ \E j \in 1..Len(filtered_output.filtered_events) :
          filtered_output.filtered_events[j].needs_review
    /\ \E k \in 1..Len(events) : is_skipped(events[k])
    /\ \E k \in 1..Len(events_to_process) :
          CountId(filtered_output.filtered_events, events_to_process[k].id) = 0

\* C2: once the controller has returned, every failed call for a batch of
\* more than one item was followed by one call for each half of the batch.
C2_FailedBatchRetriedInHalves ==
    ControllerReturned =>
        \A c \in calls :
            (c.half = 0 /\ c.outcome.failed /\ Len(c.items) > 1) =>
                /\ \E c1 \in calls : /\ c1.batch = c.batch
                                     /\ c1.half = 1
                                     /\ c1.items = first_half(c.items)
                /\ \E c2 \in calls : /\ c2.batch = c.batch
                                     /\ c2.half = 2
                                     /\ c2.items = second_half(c.items)

\* The batch had model calls and every one of them failed.
AllAttemptsFailed(b) ==
    /\ \E c \in calls : c.batch = b
    /\ \A c \in calls : c.batch = b => c.outcome.failed

ReviewEntryFor(id) ==
    /\ CountId(filtered_output.filtered_events, id) = 1
    /\ \E j \in 1..Len(filtered_output.filtered_events) :
          LET fe == filtered_output.filtered_events[j]
          IN /\ fe.id = id
             /\ fe.needs_review
             /\ fe.review_reason # None
             /\ fe.classification = None

\* C3 as stated: when every attempt for a batch failed, every item of the
\* batch has exactly one entry in the output, flagged for review, with a
\* reason and no classification.
C3_FailedBatchFlagged ==
    pc = "done" =>
        \A b \in 1..Len(batches) :
            AllAttemptsFailed(b) =>
                \A k \in 1..Len(batches[b]) : ReviewEntryFor(batches[b][k].id)

\* A call for another batch returned a passing verdict for the id.
KeptElsewhere(id, b) ==
    \E c \in calls :
        /\ c.batch # b
        /\ ~c.outcome.failed
        /\ id \in DOMAIN c.outcome.lookup
        /\ c.outcome.lookup[id] # None
        /\ Passes(c.outcome.lookup[id][1], confidence_threshold)

\* C3 amended: the same, for every item of the batch whose id no call of
\* another batch classified with a passing verdict.
C3_FailedBatchFlaggedUnlessKeptElsewhere ==
    pc = "done" =>
        \A b \in 1..Len(batches) :
            AllAttemptsFailed(b) =>
                \A k \in 1..Len(batches[b]) :
                    ~KeptElsewhere(batches[b][k].id, b) =>
                        ReviewEntryFor(batches[b][k].id)

C3_Witness ==
    /\ pc = "done"
    /\ \E b \in 1..Len(batches) :
          /\ Len(batches[b]) > 1
          /\ AllAttemptsFailed(b)
          /\ \A k \in 1..Len(batches[b]) : ReviewEntryFor(batches[b][k].id)
    /\ \E c \in calls : ~c.outcome.failed

\* C4: the number of model calls in flight, initial and retry calls
\* together, never exceeds max_concurrent_batches.
C4_InFlightBounded == InFlight <= max_concurrent_batches

C4_Witness ==
    /\ InFlight = max_concurrent_batches
    /\ \E i \in 1..Len(task) : task[i].state = "pending"

\* C5: a task that has returned holds the result of its own call whatever
\* the other calls did, and once gather is over every task has returned and
\* every batch that could be formatted had its call.
C5_FailuresIsolated ==
    /\ \A b \in 1..Len(task) :
          (task[b].state = "returned" /\ ~format_raises(batches[b])) =>
              /\ \E c \in calls : c.batch = b /\ c.half = 0
              /\ task[b].result = Some(classify_result(batches[b], ResponseOf(b, 0)))
    /\ pc \notin {"idle", "collect", "create_batches", "gather"} =>
          \A b \in 1..Len(batches) :
              /\ task[b].state = "returned"
              /\ batch_results[b] = task[b].result

C5_Witness ==
    /\ pc = "loop"
    /\ Len(completion_order) >= 2
    /\ LET b1 == completion_order[1]
           b2 == completion_order[2]
       IN /\ \E c \in calls : c.batch = b1 /\ c.half = 0 /\ c.outcome.failed
          /\ \E c \in calls : c.batch = b2 /\ c.half = 0 /\ ~c.outcome.failed
          /\ \E k \in 1..Len(batch_results[b2][1]) :
                batch_results[b2][1][k].classification # None

\* C6: the final filtered_events list and the list of every interim output
\* and of the snapshot on disk hold at most one entry per item id.
C6_OneEntryPerId ==
    \A id \in AllIds :
        /\ CountId(filtered_output.filtered_events, id) <= 1
        /\ CountId(interim_output.filtered_events, id) <= 1
        /\ target_file.content # None =>
              CountId(target_file.content[1].filtered_events, id) <= 1

C6_Witness ==
    /\ processed_batch_count = SaveEvery
    /\ interim_output.filtered_events # <<>>
    /\ \E id \in AllIds : CountId(processed_events, id) >= 2
    /\ \E c \in calls : c.half = 1

\* C7: after deduplication of a list in which exactly two entries share an
\* id and differ in confidence (no classification counting as 0), exactly
\* one entry has that id and it is the one of higher confidence, whichever
\* came first.
C7_HigherConfidenceKept ==
    agg_pc = "deduplicated" =>
        \A i, j \in 1..Len(entries) :
            ( /\ i < j
              /\ entries[i].id = entries[j].id
              /\ CountId(entries, entries[i].id) = 2
              /\ Confidence(entries[i]) # Confidence(entries[j]) ) =>
                /\ CountId(agg_out, entries[i].id) = 1
                /\ \E k \in 1..Len(agg_out) :
                      agg_out[k] = IF Confidence(entries[i]) > Confidence(entries[j])
                                   THEN entries[i] ELSE entries[j]

C7_Witness ==
    /\ agg_pc = "deduplicated"
    /\ Len(entries) >= 2
    /\ entries[1].id = entries[2].id
    /\ CountId(entries, entries[1].id) = 2
    /\ entries[1].classification # None
    /\ Confidence(entries[1]) < Confidence(entries[2])
    /\ agg_out[1] = entries[2]

\* C8: deduplication followed by sorting gives the same list for a list of
\* entries and for any permutation of it.
C8_ArrivalOrderDoesNotLeak ==
    agg_pc = "sorted" => agg_out = agg_out_permuted

\* The result lists the controller appends for batch b, from the logged
\* outcomes alone.
C9_ListsOf(b) ==
    LET batch == batches[b]
    IN IF ~format_raises(batch)
       THEN << classify_result(batch, ResponseOf(b, 0)) >>
       ELSE IF Len(batch) <= 1 \/ format_raises(first_half(batch))
            THEN << unclassified(batch) >>
            ELSE IF format_raises(second_half(batch))
                 THEN << classify_result(first_half(batch), ResponseOf(b, 1)),
                         unclassified(batch) >>
                 ELSE << classify_result(first_half(batch), ResponseOf(b, 1)),
                         classify_result(second_half(batch), ResponseOf(b, 2)) >>

RECURSIVE C9_EntriesOfLists(_)
C9_EntriesOfLists(lists) ==
    IF lists = <<>> THEN <<>>
    ELSE batch_filtered_events(Head(lists), confidence_threshold)
         \o C9_EntriesOfLists(Tail(lists))

RECURSIVE C9_EntriesFrom(_)
C9_EntriesFrom(b) ==
    IF b > Len(batches) THEN <<>>
    ELSE C9_EntriesOfLists(C9_ListsOf(b)) \o C9_EntriesFrom(b + 1)

\* C9: the final list is the one obtained by taking the batches in their
\* input order with the outcomes of their calls, whatever the order in
\* which the calls completed.
C9_OutputIndependentOfCompletionOrder ==
    pc = "done" =>
        filtered_output.filtered_events
            = sort_events(deduplicate_events(C9_EntriesFrom(1)))

C9_Witness ==
    /\ pc = "done"
    /\ \E k \in 1..(Len(completion_order) - 1) :
          completion_order[k] > completion_order[k + 1]
    /\ Len(filtered_output.filtered_events) >= 2
    /\ \E j \in 1..Len(filtered_output.filtered_events) :
          filtered_output.filtered_events[j].classification # None

RECURSIVE C10_Flatten(_)
C10_Flatten(lists) ==
    IF lists = <<>> THEN <<>> ELSE Head(lists) \o C10_Flatten(Tail(lists))

\* C10: once the controller has returned, every item of every batch is in
\* its result lists, as many times at least as it is in the batches.
C10_EveryItemAccounted ==
    ControllerReturned =>
        \A e \in Range(events_to_process) :
            Cardinality({ j \in 1..Len(C10_Flatten(results)) :
                             C10_Flatten(results)[j].event = e })
                >= Cardinality({ k \in 1..Len(events_to_process) :
                                    events_to_process[k] = e })

C10_Witness ==
    /\ ControllerReturned
    /\ \E c \in calls : c.outcome.failed
    /\ \E c \in calls :
          /\ ~c.outcome.failed
          /\ \E id \in DOMAIN c.outcome.lookup : c.outcome.lookup[id] = None
          /\ \E id \in DOMAIN c.outcome.lookup : c.outcome.lookup[id] # None

\* The logged calls of batch b that carried the item at position k.
C11_Sends(b, k) ==
    { c \in calls : /\ c.batch = b
                    /\ \/ c.half = 0
                       \/ c.half = 1 /\ k <= Len(batches[b]) \div 2
                       \/ c.half = 2 /\ k > Len(batches[b]) \div 2 }

\* Every item was sent at most twice, every batch and every half had at
\* most one call, a retry call carries exactly one half of a batch of more
\* than one item, and nothing smaller than a half was ever sent.
C11_OneLevel ==
    \A b \in 1..Len(batches) :
        /\ \A k \in 1..Len(batches[b]) : Cardinality(C11_Sends(b, k)) <= 2
        /\ \A h \in {0, 1, 2} :
              Cardinality({ c \in calls : c.batch = b /\ c.half = h }) <= 1
        /\ \A c \in calls :
              c.batch = b =>
                  /\ c.half \in {0, 1, 2}
                  /\ c.half = 0 => c.items = batches[b]
                  /\ c.half = 1 =>
                        /\ Len(batches[b]) > 1
                        /\ c.items = SubSeq(batches[b], 1, Len(batches[b]) \div 2)
                  /\ c.half = 2 =>
                        /\ Len(batches[b]) > 1
                        /\ c.items = SubSeq(batches[b], Len(batches[b]) \div 2 + 1,
                                            Len(batches[b]))

C12_HalvesIndependent ==
    ControllerReturned =>
        \A b \in 1..Len(batches) :
            (batch_results[b] = None /\ Len(batches[b]) > 1) =>
                /\ ~format_raises(first_half(batches[b])) =>
                      \E c \in calls : c.batch = b /\ c.half = 1
                /\ ~format_raises(second_half(batches[b])) =>
                      \E c \in calls : c.batch = b /\ c.half = 2
                /\ \A c \in calls :
                      (c.batch = b /\ c.half # 0 /\ ~c.outcome.failed) =>
                          \A k \in 1..Len(c.items) :
                              ( /\ c.outcome.lookup[c.items[k].id] # None
                                /\ Cardinality({ j \in 1..Len(events_to_process) :
                                        events_to_process[j] = c.items[k] }) = 1 ) =>
                                  \A j \in 1..Len(C10_Flatten(results)) :
                                      C10_Flatten(results)[j].event = c.items[k] =>
                                          C10_Flatten(results)[j].classification # None

\* The steps an export run takes by itself, without a model call returning.
C13_StepWithoutCallReturn ==
    \/ CollectEvents
    \/ CreateBatches
    \/ \E i \in 1..Len(batches) : TaskStart(i)
    \/ Gather
    \/ LoopStep
    \/ ControllerReturn
    \/ ProcessBatch
    \/ Finalize
    \/ SaveFilteredEvents
    \/ ExportReturn

\* C13: a model call that never returns does not keep the run from
\* completing: as long as the run has not ended, the program has a step to
\* take (such as the call's timeout) that does not wait for a call to return.
C13_HungCallDoesNotBlockRun ==
    pc \notin {"idle", "exported"} => ENABLED C13_StepWithoutCallReturn

\* C14: in a run of more than 5 batches a snapshot of the results so far is
\* written before the remaining batches have been classified: by the time
\* every batch's task has returned, the interim output has been built.
C14_SnapshotWhileCallsOutstanding ==
    ( /\ Len(batches) > SaveEvery
      /\ pc \notin {"idle", "collect", "create_batches", "gather"} ) =>
        interim_output # NoOutput

\* C15: in every reachable state, also after a write that failed midway,
\* the target path holds a complete snapshot (or none yet), never a
\* partially written one.
C15_TargetNeverPartial == target_file.status \in {"absent", "complete"}

\* What filter_events returns for the controller's results when nothing
\* but the results decides it.
C16_Expected ==
    LET sorted_events == sort_events(deduplicate_events(C9_EntriesOfLists(results)))
    IN [filtered_events |-> sorted_events,
        metadata |-> Some([total_events_processed |-> Len(events),
                           events_retained |-> Len(sorted_events),
                           confidence_threshold |-> DefaultMetadataThreshold,
                           batch_size |-> batch_size,
                           max_concurrent_batches |-> max_concurrent_batches,
                           total_batches |-> Len(batches),
                           successful_batches |->
                               Cardinality({ k \in 1..Len(results) :
                                                results[k] # <<>> })])]

\* C16: a failed interim save is swallowed.  An interim save is attempted at
\* every fifth processed batch whatever became of the earlier saves, and
\* once an interim save has failed filter_events still goes through the
\* remaining results and returns what the results alone determine.
C16_InterimFailureSwallowed ==
    /\ Len(interim_log) = processed_batch_count \div SaveEvery
    /\ \A k \in 1..Len(interim_log) :
          interim_log[k].batches_processed = k * SaveEvery
    /\ (\E k \in 1..Len(interim_log) : ~interim_log[k].saved) =>
          /\ pc \in {"process", "done", "saved", "save_raised", "exported"}
          /\ pc # "process" => filtered_output = C16_Expected

C16_Witness ==
    /\ pc = "done"
    /\ processed_batch_count = 2 * SaveEvery
    /\ Len(interim_log) = 2
    /\ ~interim_log[1].saved
    /\ Len(filtered_output.filtered_events) >= 2

\* C17: a failure to write the final snapshot is the run's failure: when
\* save_filtered_events has raised, the export run that called it reports
\* failure.
C17_FinalWriteFailureSurfaced ==
    [][(pc = "save_raised" /\ pc' = "exported") => export_status' = "failure"]_vars

\* The lists whose entries are persisted: the final result, the interim
\* output and the snapshot on disk.
C18_PersistedLists ==
    { filtered_output.filtered_events, interim_output.filtered_events }
    \cup (IF target_file.content # None
          THEN { target_file.content[1].filtered_events } ELSE {})

\* C18 as stated: every persisted entry is an item classified with keep and
\* a confidence of at least the threshold, and no other item is persisted.
C18_PersistedListIsKeptView ==
    \A list \in C18_PersistedLists :
        \A j \in 1..Len(list) :
            /\ list[j].classification # None
            /\ Passes(list[j].classification[1], confidence_threshold)

\* The result lists reported an entry of this id with no classification or
\* with a passing verdict.
C18_RetainedIn(lists, id) ==
    \E b \in 1..Len(lists) : \E k \in 1..Len(lists[b]) :
        /\ lists[b][k].event.id = id
        /\ \/ lists[b][k].classification = None
           \/ Passes(lists[b][k].classification[1], confidence_threshold)

\* The shortest prefix of the controller's results that holds n non-empty
\* lists.
C18_Processed(n) ==
    LET NonEmpty(m) == Cardinality({ k \in 1..m : results[k] # <<>> })
        m == CHOOSE x \in 0..Len(results) :
                 /\ NonEmpty(x) = n
                 /\ x > 0 => results[x] # <<>>
    IN SubSeq(results, 1, m)

C18_IsRetainedView(list, lists) ==
    /\ \A j \in 1..Len(list) :
          \/ /\ list[j].classification # None
             /\ Passes(list[j].classification[1], confidence_threshold)
             /\ ~list[j].needs_review
          \/ /\ list[j].classification = None
             /\ list[j].needs_review
             /\ list[j].review_reason = Some(ReviewReason)
    /\ \A id \in AllIds :
          CountId(list, id) = IF C18_RetainedIn(lists, id) THEN 1 ELSE 0

\* C18 amended: every persisted list holds exactly one entry for every item
\* id reported, in the batches processed up to then, with a passing verdict
\* or with no classification; a classified entry passes the filter, an
\* unclassified one is flagged for review; no other item is in the list.
C18_PersistedListIsRetainedView ==
    /\ interim_output # NoOutput =>
          C18_IsRetainedView(interim_output.filtered_events,
                             C18_Processed(interim_output.metadata[1].batches_processed))
    /\ target_file.content # None =>
          LET snapshot == target_file.content[1]
          IN IF "batches_processed" \in DOMAIN snapshot.metadata[1]
             THEN C18_IsRetainedView(snapshot.filtered_events,
                                     C18_Processed(snapshot.metadata[1].batches_processed))
             ELSE C18_IsRetainedView(snapshot.filtered_events, results)
    /\ pc \in {"done", "saved", "save_raised"} =>
          C18_IsRetainedView(filtered_output.filtered_events, results)

C18_Witness ==
    /\ pc = "done"
    /\ Len(interim_output.filtered_events) = 2
    /\ \E j \in 1..2 : interim_output.filtered_events[j].needs_review
    /\ \E j \in 1..2 : interim_output.filtered_events[j].classification # None
    /\ \E c \in calls : \E id \in DOMAIN c.outcome.lookup :
          /\ c.outcome.lookup[id] # None
          /\ ~Passes(c.outcome.lookup[id][1], confidence_threshold)

\* The rank the sort gives a category: the four categories in their fixed
\* order, 3 for no classification and for any other category.
C19_Rank(x) ==
    IF x.classification = None THEN 3
    ELSE LET cat == x.classification[1].eisenhower_category
         IN CASE cat = "Urgent & Important" -> 0
              [] cat = "Important & Not Urgent" -> 1
              [] cat = "Urgent & Not Important" -> 2
              [] OTHER -> 3

C19_Count(list, e) == Cardinality({ j \in 1..Len(list) : list[j] = e })

\* C19: the sorted list is a permutation of the input, ordered by start
\* date ascending with undated entries after all dated ones, and among
\* entries of the same date (or both undated) by category rank.
C19_SortedByDateThenPriority ==
    agg_pc = "sorted_only" =>
        /\ Len(agg_out) = Len(entries)
        /\ \A e \in Range(entries) \cup Range(agg_out) :
              C19_Count(agg_out, e) = C19_Count(entries, e)
        /\ \A i, j \in 1..Len(agg_out) :
              i < j =>
                  LET a == agg_out[i]
                      b == agg_out[j]
                  IN /\ a.start_date = None => b.start_date = None
                     /\ (a.start_date # None /\ b.start_date # None) =>
                           a.start_date[1] <= b.start_date[1]
                     /\ a.start_date = b.start_date => C19_Rank(a) <= C19_Rank(b)

\* The example of the claim: dates [later, none, earlier] with equal
\* categories come out as earlier, later, none.
C19_Witness ==
    /\ agg_pc = "sorted_only"
    /\ Len(entries) = 3
    /\ entries[1].start_date = Some(3)
    /\ entries[2].start_date = None
    /\ entries[3].start_date = Some(2)
    /\ \A k \in 1..3 : entries[k].classification = entries[1].classification
    /\ agg_out = << entries[3], entries[1], entries[2] >>

\* C20: the batches are consecutive slices of the collected items: none is
\* empty, none has more than batch_size items, only the last may have
\* fewer, and their concatenation in order is the list of collected items.
C20_BatchesAreConsecutiveSlices ==
    pc \notin {"idle", "collect", "create_batches"} =>
        /\ C10_Flatten(batches) = events_to_process
        /\ \A b \in 1..Len(batches) :
              /\ Len(batches[b]) >= 1
              /\ Len(batches[b]) <= batch_size
              /\ b < Len(batches) => Len(batches[b]) = batch_size

C20_Witness ==
    /\ pc = "gather"
    /\ batch_size > 1
    /\ Len(batches) >= 2
    /\ Len(batches[Len(batches)]) < batch_size

(***************************************************************************)
(* The classifier client                                                   *)
(***************************************************************************)
\* C21: every invocation of _async_batch_classify_events for a non-empty
\* batch makes exactly one model call and returns exactly one entry per
\* batch item, in batch order.  The invocations looked at are the ones the
\* tasks make with whole batches; a task result of None is an invocation
\* that raised instead of returning.
C21_OneCallOneEntryPerItem ==
    \A i \in 1..Len(task) :
        task[i].state = "returned" =>
            /\ Cardinality({ c \in calls : c.batch = i /\ c.half = 0 }) = 1
            /\ task[i].result # None
            /\ Len(task[i].result[1]) = Len(batches[i])
            /\ \A k \in 1..Len(batches[i]) :
                  task[i].result[1][k].event = batches[i][k]

\* The objects of a classifications list whose id is the id of a batch item.
C22_KnownOnly(batch_events, classifications) ==
    SelectSeq(classifications, LAMBDA c : c.event_id \in IdsOf(batch_events))

\* C22: when the response parses and its classifications list holds
\* verdicts for only some batch items, or verdicts with ids of no batch
\* item, the call has not failed: there is one entry per item in batch
\* order, an item without a verdict of its id has a null classification, an
\* item with one has a verdict that came under its own id, and the result
\* is the one the list without the unknown ids gives.
C22_PartialMatchIsNotFailure ==
    (/\ cl_result # None
     /\ cl_batch # <<>>
     /\ ~format_raises(cl_batch)
     /\ cl_content = PlainJson)
    => LET out == cl_result[1]
           of(id) == { j \in 1..Len(cl_classifications) :
                          cl_classifications[j].event_id = id }
       IN /\ ~out.raised
          /\ ~out.failed
          /\ Len(out.result) = Len(cl_batch)
          /\ \A k \in 1..Len(cl_batch) :
                /\ out.result[k].event = cl_batch[k]
                /\ of(cl_batch[k].id) = {} => out.result[k].classification = None
                /\ of(cl_batch[k].id) # {} =>
                      /\ out.result[k].classification # None
                      /\ \E j \in of(cl_batch[k].id) :
                            cl_classifications[j].verdict
                               = out.result[k].classification[1]
          /\ out.result
                = async_batch_classify_events(
                      cl_batch, cl_content,
                      C22_KnownOnly(cl_batch, cl_classifications)).result

\* An invocation whose response had a verdict for the first item, none for
\* the second and one for an id that is not in the batch.
C22_Witness ==
    /\ cl_result # None
    /\ cl_content = PlainJson
    /\ Len(cl_batch) = 2
    /\ cl_batch[1].id # cl_batch[2].id
    /\ \E j \in 1..Len(cl_classifications) :
          cl_classifications[j].event_id = cl_batch[1].id
    /\ \E j \in 1..Len(cl_classifications) :
          cl_classifications[j].event_id \notin IdsOf(cl_batch)
    /\ cl_result[1].result[1].classification # None
    /\ cl_result[1].result[2].classification = None

\* The texts the three strategies give for a response, in order: the block
\* fenced as json, the first fenced block, the span from the first "{" to
\* the last "}"; a strategy whose marker is missing gives none.
C23_Candidates(content) ==
    (IF find_json_fence(content) # 0 THEN << json_block(content) >> ELSE <<>>)
    \o (IF find(content, Fence) # 0 THEN << any_block(content) >> ELSE <<>>)
    \o (IF find(content, "{") # 0 /\ rfind(content, "}") > find(content, "{")
        THEN << SubSeq(content, find(content, "{"), rfind(content, "}")) >>
        ELSE <<>>)

\* C23: the payload is the text of the first of the three strategies, in
\* order, that yields parseable JSON, and the call fails only if none of
\* them does.
C23_FailsOnlyIfNoStrategyParses ==
    (/\ cl_result # None
     /\ cl_batch # <<>>
     /\ ~format_raises(cl_batch))
    => LET out == cl_result[1]
           good == SelectSeq(C23_Candidates(cl_content), parses)
       IN /\ out.failed <=> good = <<>>
          /\ ~out.failed => out.json_text = good[1]

(***************************************************************************)
(* filter_events: what is collected                                        *)
(***************************************************************************)
\* C24: no batch passed to the classifier holds an item whose start lies
\* before today, be it an all-day date or a timed date-time, and every
\* item that starts today or later (and is not cancelled) is collected.
C24_PastItemsNeverSent ==
    /\ \A c \in calls : \A k \in 1..Len(c.items) : c.items[k].day >= Today
    /\ pc \notin {"idle", "collect"} =>
          \A k \in 1..Len(events) :
              (events[k].day >= Today /\ events[k].status # "cancelled")
                 => \E j \in 1..Len(events_to_process) : events_to_process[j] = events[k]

(***************************************************************************)
(* Termination                                                             *)
(***************************************************************************)
\* C25: when every model call returns or raises in the end, a run of
\* filter_events comes to its end (the return of line 667 or an exception
\* out of it) with every batch's task returned and every permit of the
\* semaphore given back, whether the calls succeeded or failed.
C25_EveryBatchFinishesAndRunTerminates ==
    (pc = "collect")
       ~> (/\ pc \in {"done", "raised"}
           /\ \A i \in 1..Len(batches) : task[i].state = "returned"
           /\ semaphore = max_concurrent_batches)

\* A finished run of two batches that shared one permit, the first of which
\* had a failed call.
C25_Witness ==
    /\ pc = "done"
    /\ max_concurrent_batches = 1
    /\ Len(batches) = 2
    /\ \E c \in calls : c.batch = 1 /\ c.half = 0 /\ c.outcome.failed
    /\ \E c \in calls : c.batch = 2 /\ c.half = 0
    /\ semaphore = max_concurrent_batches

(***************************************************************************)
(* The entries of the output                                               *)
(***************************************************************************)
\* C26: an item for which some model call returned a verdict has no
\* needs_review entry in the final output.  Entries carry the item's id, so
\* the items looked at are the ones whose id no other collected item shares.
C26_ClassifiedItemNeverFlagged ==
    pc = "done" =>
        \A id \in IdsOf(events_to_process) :
            (/\ CountId(events_to_process, id) = 1
             /\ \E c \in calls :
                   /\ ~c.outcome.failed
                   /\ id \in IdsOf(c.items)
                   /\ c.outcome.lookup[id] # None)
            => \A j \in 1..Len(filtered_output.filtered_events) :
                   filtered_output.filtered_events[j].id = id
                      => ~filtered_output.filtered_events[j].needs_review

\* The lists filter_events produces: the interim output, what is on disk
\* of it, and the final output.
C27_Lists ==
    { interim_output.filtered_events, filtered_output.filtered_events }
    \cup (IF target_file.content # None
          THEN { target_file.content[1].filtered_events } ELSE {})

\* C27: in every list filter_events produces, an entry is either flagged
\* needs_review, with the review reason and no classification, or not
\* flagged, with a classification that says keep with a confidence of at
\* least the configured threshold.
C27_NeedsReviewIffUnclassified ==
    \A list \in C27_Lists :
        \A j \in 1..Len(list) :
            \/ /\ list[j].needs_review
               /\ list[j].review_reason = Some(ReviewReason)
               /\ list[j].classification = None
            \/ /\ ~list[j].needs_review
               /\ list[j].review_reason = None
               /\ list[j].classification # None
               /\ list[j].classification[1].keep_event
               /\ list[j].classification[1].confidence_score >= confidence_threshold

\* A finished run whose interim and final lists both hold a flagged and a
\* classified entry, after a verdict to keep and a verdict to discard.
C27_Witness ==
    /\ pc = "done"
    /\ \A list \in { interim_output.filtered_events, filtered_output.filtered_events } :
          /\ \E j \in 1..Len(list) : list[j].needs_review
          /\ \E j \in 1..Len(list) : ~list[j].needs_review
    /\ \E c \in calls : \E id \in DOMAIN c.outcome.lookup :
          /\ c.outcome.lookup[id] # None
          /\ ~c.outcome.lookup[id][1].keep_event

(***************************************************************************)
(* The result of filter_events and its metadata                            *)
(***************************************************************************)
\* C28: on an input without events filter_events does not raise, and it
\* returns a result with an empty filtered_events list.
C28_EmptyInputReturnsEmptyResult ==
    events = <<>> =>
        /\ pc # "raised"
        /\ pc = "done" => filtered_output.filtered_events = <<>>

\* C29: the count of processed batches in the metadata of an interim
\* snapshot (batches_processed) and of the final result
\* (successful_batches) is at most total_batches.
C29_ProcessedBatchesWithinTotal ==
    /\ interim_output.metadata # None =>
          interim_output.metadata[1].batches_processed
             <= interim_output.metadata[1].total_batches
    /\ filtered_output.metadata # None =>
          filtered_output.metadata[1].successful_batches
             <= filtered_output.metadata[1].total_batches

\* C30: the threshold recorded in the metadata of the result
\* (filtering_criteria.confidence_threshold) is the threshold the filter was
\* configured with and applied.
C30_MetadataThresholdIsConfigured ==
    pc = "done" =>
        filtered_output.metadata[1].confidence_threshold = confidence_threshold

====
